---- MODULE Spec2Model ----
(***************************************************************************)
(* A model of src/app.py: the three scoring routes (/score, /score-text,   *)
(* /score-text-flex), the PII redactor, the scoring call, the single       *)
(* repair call and the validation of the parsed answer.                    *)
(*                                                                         *)
(* Text is a sequence of tokens in which words and separators alternate.   *)
(* A word token stands for one run of word characters (or one e-mail       *)
(* address); a separator token is a single space, a newline, or the        *)
(* underscore (which joins two words into one whitespace-delimited word).  *)
(* A JSON value is a record [t, n, s] (type tag, integer payload, string   *)
(* payload); a JSON object is a function from its keys to its values.      *)
(***************************************************************************)
EXTENDS Integers, Sequences, FiniteSets, TLC

VARIABLES
    route,      \* which handler serves the request
    pc,         \* position of the handler: "received", "scoring", "repairing", "done"
    payload,    \* the request as the handler receives it
    text,       \* the handler's local `text` (fixed routes), <<>> before it is set
    sent,       \* the calls made to client.chat.completions.create, in order
    received,   \* the message contents the external service returned, in order
    outcome,    \* "pending", "ok" (the handler returned) or the exception raised
    errkeys,    \* the keys named by the exception raised by validation
    response    \* the body returned to the caller when outcome = "ok"

vars == <<route, pc, payload, text, sent, received, outcome, errkeys, response>>

----------------------------------------------------------------------------
(* Bounds of the model *)

MaxWords == 2
MaxCats == 2
MaxPages == 6

----------------------------------------------------------------------------
(* Tokens *)

CapWords == {"Clarity", "Thought"}          \* match [A-Z][a-z]+
Emails == {"a@b.co"}                        \* match the e-mail pattern
Whitespace == {" ", "\n"}
REDACTED_EMAIL == "<REDACTED_EMAIL>"
REDACTED_NAME == "<REDACTED_NAME>"

Min(a, b) == IF a <= b THEN a ELSE b

\* str.split() followed by len(): the number of maximal runs of
\* non-whitespace tokens.
WordCount(t) ==
    Cardinality({i \in 1..Len(t) :
        /\ t[i] \notin Whitespace
        /\ (i = 1 \/ t[i-1] \in Whitespace)})

\* text[:n]
Prefix(t, n) == SubSeq(t, 1, Min(n, Len(t)))

\* str.strip(): leading and trailing whitespace removed.
RECURSIVE StripLeft(_)
StripLeft(t) ==
    IF t # <<>> /\ Head(t) \in Whitespace THEN StripLeft(Tail(t)) ELSE t

RECURSIVE StripRight(_)
StripRight(t) ==
    IF t # <<>> /\ t[Len(t)] \in Whitespace
    THEN StripRight(SubSeq(t, 1, Len(t) - 1))
    ELSE t

Strip(t) == StripRight(StripLeft(t))

\* First re.sub of redact_basic_pii: every e-mail address becomes the token.
RedactEmails(t) ==
    [i \in 1..Len(t) |-> IF t[i] \in Emails THEN REDACTED_EMAIL ELSE t[i]]

\* \b before position i / after position i: the neighbour is not a word
\* character (the underscore is one).
BoundaryBefore(t, i) == i = 1 \/ t[i-1] # "_"
BoundaryAfter(t, i) == i = Len(t) \/ t[i+1] # "_"

NameAt(t, i) ==
    /\ i + 2 <= Len(t)
    /\ t[i] \in CapWords
    /\ t[i+1] = " "
    /\ t[i+2] \in CapWords
    /\ BoundaryBefore(t, i)
    /\ BoundaryAfter(t, i + 2)

\* Second re.sub: leftmost, non-overlapping matches of
\* \b[A-Z][a-z]+ [A-Z][a-z]+\b, scanned from position i.
RECURSIVE RedactNamesFrom(_, _)
RedactNamesFrom(t, i) ==
    IF i > Len(t) THEN <<>>
    ELSE IF NameAt(t, i) THEN <<REDACTED_NAME>> \o RedactNamesFrom(t, i + 3)
    ELSE <<t[i]>> \o RedactNamesFrom(t, i + 1)

RedactNames(t) == RedactNamesFrom(t, 1)

redact_basic_pii(t) == RedactNames(RedactEmails(t))

\* extract_text_from_pdf: the text of at most the first max_pages pages,
\* joined by newlines; a page without text counts as "".
max_pages == 5

RECURSIVE JoinPages(_)
JoinPages(pages) ==
    IF pages = <<>> THEN <<>>
    ELSE IF Len(pages) = 1 THEN Head(pages)
    ELSE Head(pages) \o <<"\n">> \o JoinPages(Tail(pages))

extract_text_from_pdf(pages) == JoinPages(Prefix(pages, max_pages))

----------------------------------------------------------------------------
(* JSON values *)

JInt(k) == [t |-> "int", n |-> k, s |-> <<>>]
JStr(str) == [t |-> "str", n |-> 0, s |-> str]
JBool(b) == [t |-> "bool", n |-> IF b THEN 1 ELSE 0, s |-> <<>>]
JNull == [t |-> "null", n |-> 0, s |-> <<>>]
\* A field a JSON object does not have.
Absent == [t |-> "absent", n |-> 0, s |-> <<>>]
\* The object one category maps to, with its "score" and "quote" fields.
JDict(sc, q) == [t |-> "dict", score |-> sc, quote |-> q]

\* dict.get(field, default)
Get(field, default) == IF field = Absent THEN default ELSE field

\* isinstance(v, int): Python's bool is a subclass of int.
IsInstanceInt(v) == v.t \in {"int", "bool"}

\* A string of k words.
RECURSIVE Words(_)
Words(k) == IF k = 0 THEN <<>>
            ELSE IF k = 1 THEN <<"thought">>
            ELSE <<"thought", " ">> \o Words(k - 1)

----------------------------------------------------------------------------
(* The requests the model draws from *)

TextWords == {"Clarity", "thought", "a@b.co"}
TextSeparators == {" "}

RECURSIVE TextsOfLen(_)
TextsOfLen(k) ==
    IF k = 1 THEN {<<w>> : w \in TextWords}
    ELSE {t \o <<sp, w>> : t \in TextsOfLen(k - 1), sp \in TextSeparators, w \in TextWords}

\* TextPayload.text, FlexPayload.text: min_length = 1.
Texts == UNION {TextsOfLen(k) : k \in 1..MaxWords}

\* An upload: a PDF with its pages' texts (or bytes PdfReader cannot read),
\* or any other file with its content as decoded by
\* raw.decode("utf-8", "ignore").
PageTexts == {<<>>, <<"Clarity">>}
Uploads ==
    {[filename |-> "essay.pdf", readable |-> TRUE, pages |-> p] :
        p \in UNION {[1..k -> PageTexts] : k \in 0..MaxPages}}
    \cup {[filename |-> "essay.pdf", readable |-> FALSE, pages |-> <<>>]}
    \cup {[filename |-> "essay.txt", content |-> c] : c \in Texts \cup {<<>>}}

\* file.filename.lower().endswith(".pdf")
IsPdf(filename) == filename = "essay.pdf"

\* Category.name (2 to 40 characters), Category.description (default "").
CategoryNames == {<<"Clarity", " ", "Thought">>, <<"clarity", "_", "thought">>}
Categories ==
    {[name |-> <<"Clarity", " ", "Thought">>, description |-> <<>>],
     [name |-> <<"clarity", "_", "thought">>, description |-> <<>>],
     [name |-> <<"clarity", "_", "thought">>, description |-> <<"a@b.co">>]}

\* FlexPayload.categories: min_items = 1.
CategoryLists == UNION {[1..k -> Categories] : k \in 1..MaxCats}

FlexPayloads == [text : Texts, categories : CategoryLists, quotes : BOOLEAN]

Requests ==
    {[route |-> "score", payload |-> u] : u \in Uploads}
    \cup {[route |-> "score_text", payload |-> [text |-> t]] : t \in Texts}
    \cup {[route |-> "score_text_flex", payload |-> p] : p \in FlexPayloads}

----------------------------------------------------------------------------
(* What the external service may answer *)

\* An answer that json.loads rejects: prose, here with a leading newline.
Garbage == {<<"\n", "thought">>}

ScoreFields == {"argumentation", "writing", "creativity"}

\* Values a fixed-mode answer may give a field.
FixedValues == {JInt(-1), JInt(0), JInt(3), JInt(4), JNull}

\* Fixed-mode answers that parse: objects with any of the three fields.
FixedObjects == UNION {[K -> FixedValues] : K \in SUBSET ScoreFields}

MaxQuoteWords == 25

\* What a flexible-mode answer may map one category key to.
FlexEntries ==
    {JDict(sc, Absent) :
        sc \in {Absent, JInt(-1), JInt(0), JInt(3), JInt(4), JStr(<<"2">>), JBool(TRUE)}}
    \cup {JDict(JInt(3), q) :
        q \in {JStr(Words(MaxQuoteWords)), JStr(Words(MaxQuoteWords + 1)), JInt(0)}}
    \cup {JDict(JInt(4), JStr(Words(MaxQuoteWords + 1))), JInt(2)}

\* Flexible-mode answers that parse: objects over the category names.
FlexObjects == UNION {[K -> FlexEntries] : K \in SUBSET CategoryNames}

----------------------------------------------------------------------------
(* Calls to client.chat.completions.create *)

\* text[:5000] and text[:6000] cut characters; a token holds at least one
\* character, so a text the slice leaves whole has at most that many tokens.
FixedTextLimit == 5000
FlexTextLimit == 6000
DefaultDescription == <<"Assess per the scale; stay on-topic.">>

\* The scoring call of score_text_llm: the rubric prompt around text[:5000].
LlmScoringCall(t) ==
    [system |-> "You are an assistant that scores student work. Output JSON only.",
     essay |-> Prefix(t, FixedTextLimit), categories |-> <<>>, quotes |-> FALSE,
     raw |-> <<>>]

\* The repair call of score_text_llm: the raw answer, to be fixed.
LlmFixerCall(raw) ==
    [system |-> "Fix invalid JSON to match: keys argumentation, writing, creativity as integers 0..3. Output JSON only.",
     essay |-> <<>>, categories |-> <<>>, quotes |-> FALSE, raw |-> raw]

\* One "- name: description" line of cat_lines; the name is also a key of
\* json_shape.
CatLine(c) ==
    [name |-> c.name,
     description |-> IF c.description = <<>> THEN DefaultDescription ELSE c.description]

\* The scoring call of score_text_flex.
FlexScoringCall(p) ==
    [system |-> "You are an assistant that scores student work. Always output JSON only.",
     essay |-> Prefix(redact_basic_pii(p.text), FlexTextLimit),
     categories |-> [i \in 1..Len(p.categories) |-> CatLine(p.categories[i])],
     quotes |-> p.quotes, raw |-> <<>>]

\* The repair call of score_text_flex.
FlexFixerCall(raw) ==
    [system |-> "Fix to valid JSON only. Keep the same keys and structure.",
     essay |-> <<>>, categories |-> <<>>, quotes |-> FALSE, raw |-> raw]

\* What a call to the service ends with: text that json.loads accepts
\* (body is the parsed object), text that it rejects (body is the text), or
\* an exception of the client (the service is unreachable or faults).
JsonAnswer(d) == [kind |-> "json", body |-> d]
TextAnswer(g) == [kind |-> "text", body |-> g]
Fault == [kind |-> "fault", body |-> <<>>]

----------------------------------------------------------------------------
(* The demo page's normalisation of a category name (parseCategories):     *)
(* trim, runs of whitespace to one underscore, lower case.                 *)

ToLowerCase(w) ==
    IF w = "Clarity" THEN "clarity"
    ELSE IF w = "Thought" THEN "thought"
    ELSE w

RECURSIVE CollapseWhitespace(_)
CollapseWhitespace(t) ==
    IF t = <<>> THEN <<>>
    ELSE IF Head(t) \in Whitespace
         THEN <<"_">> \o CollapseWhitespace(StripLeft(t))
         ELSE <<Head(t)>> \o CollapseWhitespace(Tail(t))

Normalize(nm) ==
    LET u == CollapseWhitespace(Strip(nm))
    IN [i \in 1..Len(u) |-> ToLowerCase(u[i])]

----------------------------------------------------------------------------
(* Validation *)

\* Scores(**data): the fields pydantic's ValidationError reports, those
\* that are missing or hold no int. The model declares no range.
ScoresErrors(data) ==
    {k \in ScoreFields : k \notin DOMAIN data \/ data[k].t # "int"}

\* Mutant: the handler looks a category up by its normalised name.
ResponseKey_Normalized(c) == Normalize(c.name)

\* The key score_text_flex looks a category up by.
ResponseKey(c) == c.name

\* Mutant: the range check forgets the lower end.
ValidScore_NoLowerBound(sc) == IsInstanceInt(sc) /\ sc.n <= 3

\* isinstance(s, int) and s in (0,1,2,3)
ValidScore(sc) == IsInstanceInt(sc) /\ sc.n \in {0, 1, 2, 3}

\* isinstance(q, str) and len(q.split()) <= 25
ValidQuote(q) == q.t = "str" /\ WordCount(q.s) <= MaxQuoteWords

\* The validation loop of score_text_flex from category i on: the first
\* ValueError it raises, if any.
RECURSIVE FlexCheck(_, _, _, _)
FlexCheck(cats, i, wants_quotes, data) ==
    IF i > Len(cats) THEN [ok |-> TRUE, key |-> <<>>, why |-> ""]
    ELSE LET key == ResponseKey(cats[i]) IN
        IF key \notin DOMAIN data \/ data[key].t # "dict"
        THEN [ok |-> FALSE, key |-> key, why |-> "Missing category"]
        ELSE IF ~ValidScore(Get(data[key].score, JNull))
        THEN [ok |-> FALSE, key |-> key, why |-> "Invalid score"]
        ELSE IF wants_quotes /\ ~ValidQuote(Get(data[key].quote, JStr(<<>>)))
        THEN [ok |-> FALSE, key |-> key, why |-> "Quote too long or missing"]
        ELSE FlexCheck(cats, i + 1, wants_quotes, data)

----------------------------------------------------------------------------
(* Responses *)

NoResponse == [status |-> 0]
\* An exception leaves the handler: the framework answers with a 500.
ServerError == [status |-> 500]
Success(scores, tokens) ==
    [status |-> 200, scores |-> scores, tokens_estimate |-> tokens]

Raise(exception, keys) ==
    /\ pc' = "done"
    /\ outcome' = exception
    /\ errkeys' = keys
    /\ response' = ServerError

Return(body) ==
    /\ pc' = "done"
    /\ outcome' = "ok"
    /\ errkeys' = {}
    /\ response' = body

----------------------------------------------------------------------------
(* The handlers *)

FixedRoutes == {"score", "score_text"}

Init ==
    /\ \E r \in Requests : route = r.route /\ payload = r.payload
    /\ pc = "received"
    /\ text = <<>>
    /\ sent = <<>>
    /\ received = <<>>
    /\ outcome = "pending"
    /\ errkeys = {}
    /\ response = NoResponse

\* POST /score up to the scoring call of score_text_llm.
score ==
    /\ pc = "received" /\ route = "score"
    /\ \/ /\ IsPdf(payload.filename) /\ ~payload.readable
          /\ Raise("PdfReadError", {})
          /\ UNCHANGED <<text, sent>>
       \/ /\ IsPdf(payload.filename) => payload.readable
          /\ LET extracted == IF IsPdf(payload.filename)
                              THEN extract_text_from_pdf(payload.pages)
                              ELSE payload.content
                 t == redact_basic_pii(extracted)
             IN /\ text' = t
                /\ sent' = <<LlmScoringCall(t)>>
          /\ pc' = "scoring"
          /\ UNCHANGED <<outcome, errkeys, response>>
    /\ UNCHANGED <<route, payload, received>>

\* POST /score-text up to the scoring call of score_text_llm.
score_text ==
    /\ pc = "received" /\ route = "score_text"
    /\ LET t == redact_basic_pii(payload.text)
       IN /\ text' = t
          /\ sent' = <<LlmScoringCall(t)>>
    /\ pc' = "scoring"
    /\ UNCHANGED <<route, payload, received, outcome, errkeys, response>>

\* score_text_llm from Scores(**data) on, and the route's return.
LlmValidateAndReturn(data) ==
    IF ScoresErrors(data) = {}
    THEN Return(Success(data, WordCount(text)))
    ELSE Raise("ValidationError", ScoresErrors(data))

\* The scoring call of score_text_llm returns.
score_text_llm_scored ==
    /\ pc = "scoring" /\ route \in FixedRoutes
    /\ \/ \E d \in FixedObjects :
            /\ received' = <<JsonAnswer(d)>>
            /\ LlmValidateAndReturn(d)
            /\ UNCHANGED sent
       \/ \E g \in Garbage :
            /\ received' = <<TextAnswer(g)>>
            /\ sent' = Append(sent, LlmFixerCall(Strip(g)))
            /\ pc' = "repairing"
            /\ UNCHANGED <<outcome, errkeys, response>>
    /\ UNCHANGED <<route, payload, text>>

\* Mutant: a repair answer that does not parse is sent for repair again.
score_text_llm_fixed_Retry ==
    /\ pc = "repairing" /\ route \in FixedRoutes
    /\ \/ \E d \in FixedObjects :
            /\ received' = Append(received, JsonAnswer(d))
            /\ LlmValidateAndReturn(d)
            /\ UNCHANGED sent
       \/ \E g \in Garbage :
            /\ received' = Append(received, TextAnswer(g))
            /\ sent' = Append(sent, LlmFixerCall(g))
            /\ UNCHANGED <<pc, outcome, errkeys, response>>
    /\ UNCHANGED <<route, payload, text>>

\* Mutant: a repair answer that does not parse yields default scores.
score_text_llm_fixed_Default ==
    /\ pc = "repairing" /\ route \in FixedRoutes
    /\ \/ \E d \in FixedObjects :
            /\ received' = Append(received, JsonAnswer(d))
            /\ LlmValidateAndReturn(d)
       \/ \E g \in Garbage :
            /\ received' = Append(received, TextAnswer(g))
            /\ Return(Success([k \in ScoreFields |-> JInt(0)], WordCount(text)))
    /\ UNCHANGED <<route, payload, text, sent>>

\* The repair call of score_text_llm returns.
score_text_llm_fixed ==
    /\ pc = "repairing" /\ route \in FixedRoutes
    /\ \/ \E d \in FixedObjects :
            /\ received' = Append(received, JsonAnswer(d))
            /\ LlmValidateAndReturn(d)
       \/ \E g \in Garbage :
            /\ received' = Append(received, TextAnswer(g))
            /\ Raise("JSONDecodeError", {})
    /\ UNCHANGED <<route, payload, text, sent>>

\* Mutant: a failed call is answered with default scores.
score_text_llm_fault_Default ==
    /\ pc \in {"scoring", "repairing"} /\ route \in FixedRoutes
    /\ received' = Append(received, Fault)
    /\ Return(Success([k \in ScoreFields |-> JInt(0)], WordCount(text)))
    /\ UNCHANGED <<route, payload, text, sent>>

\* client.chat.completions.create raises in score_text_llm (either call).
score_text_llm_fault ==
    /\ pc \in {"scoring", "repairing"} /\ route \in FixedRoutes
    /\ received' = Append(received, Fault)
    /\ Raise("APIError", {})
    /\ UNCHANGED <<route, payload, text, sent>>

\* POST /score-text-flex up to its scoring call.
score_text_flex ==
    /\ pc = "received" /\ route = "score_text_flex"
    /\ sent' = <<FlexScoringCall(payload)>>
    /\ pc' = "scoring"
    /\ UNCHANGED <<route, payload, text, received, outcome, errkeys, response>>

\* score_text_flex from its validation loop on.
FlexValidateAndReturn(data) ==
    LET check == FlexCheck(payload.categories, 1, payload.quotes, data)
    IN IF check.ok
       THEN Return(Success(data, WordCount(payload.text)))
       ELSE Raise("ValueError", {check.key})

\* The scoring call of score_text_flex returns.
score_text_flex_scored ==
    /\ pc = "scoring" /\ route = "score_text_flex"
    /\ \/ \E d \in FlexObjects :
            /\ received' = <<JsonAnswer(d)>>
            /\ FlexValidateAndReturn(d)
            /\ UNCHANGED sent
       \/ \E g \in Garbage :
            /\ received' = <<TextAnswer(g)>>
            /\ sent' = Append(sent, FlexFixerCall(Strip(g)))
            /\ pc' = "repairing"
            /\ UNCHANGED <<outcome, errkeys, response>>
    /\ UNCHANGED <<route, payload, text>>

\* The repair call of score_text_flex returns.
score_text_flex_fixed ==
    /\ pc = "repairing" /\ route = "score_text_flex"
    /\ \/ \E d \in FlexObjects :
            /\ received' = Append(received, JsonAnswer(d))
            /\ FlexValidateAndReturn(d)
       \/ \E g \in Garbage :
            /\ received' = Append(received, TextAnswer(g))
            /\ Raise("JSONDecodeError", {})
    /\ UNCHANGED <<route, payload, text, sent>>

\* client.chat.completions.create raises in score_text_flex (either call).
score_text_flex_fault ==
    /\ pc \in {"scoring", "repairing"} /\ route = "score_text_flex"
    /\ received' = Append(received, Fault)
    /\ Raise("APIError", {})
    /\ UNCHANGED <<route, payload, text, sent>>

Next ==
    \/ score
    \/ score_text
    \/ score_text_llm_scored
    \/ score_text_llm_fixed
    \/ score_text_llm_fault
    \/ score_text_flex
    \/ score_text_flex_scored
    \/ score_text_flex_fixed
    \/ score_text_flex_fault

Spec == Init /\ [][Next]_vars

\* The fixed-rubric routes alone.
InitFixed == Init /\ route \in FixedRoutes

NextFixed ==
    \/ score
    \/ score_text
    \/ score_text_llm_scored
    \/ score_text_llm_fixed
    \/ score_text_llm_fault

SpecFixed == InitFixed /\ [][NextFixed]_vars

\* The flexible-rubric route alone.
InitFlex == Init /\ route = "score_text_flex"

NextFlex ==
    \/ score_text_flex
    \/ score_text_flex_scored
    \/ score_text_flex_fixed
    \/ score_text_flex_fault

SpecFlex == InitFlex /\ [][NextFlex]_vars

----------------------------------------------------------------------------
(* Vocabulary of the properties *)

\* The text of the request: the upload's extracted text, or the text field.
RequestText ==
    IF route = "score"
    THEN IF IsPdf(payload.filename)
         THEN extract_text_from_pdf(payload.pages)
         ELSE payload.content
    ELSE payload.text

IsIntegerInRange(v) == v.t = "int" /\ v.n >= 0 /\ v.n <= 3

\* A fixed-mode mapping with the three scores, each an integer in [0,3].
ValidFixedMapping(d) ==
    \A k \in ScoreFields : k \in DOMAIN d /\ IsIntegerInRange(d[k])

\* The requested names of the flexible request.
RequestedNames == {payload.categories[i].name : i \in 1..Len(payload.categories)}

Succeeded == pc = "done" /\ outcome = "ok"

----------------------------------------------------------------------------
(* C1 *)

\* C1: a request makes at most two calls to the external service; the
\* repair call is made if and only if the first raw answer does not parse,
\* it carries that raw answer, and a repair answer that does not parse ends
\* the request with the parse error and no further call.
C1_AtMostOneRepair ==
    /\ Len(sent) <= 2
    /\ Len(received) <= Len(sent)
    /\ Len(received) >= 1 =>
          /\ Len(sent) = 2 <=> received[1].kind = "text"
          /\ received[1].kind = "text" => sent[2].raw = Strip(received[1].body)
    /\ (Len(received) = 2 /\ received[2].kind = "text") =>
          /\ pc = "done"
          /\ outcome = "JSONDecodeError"
          /\ response = ServerError

C1_Witness ==
    /\ Len(received) = 2
    /\ received[2].kind = "text"
    /\ Len(sent) = 2
    /\ pc = "done"

----------------------------------------------------------------------------
(* C2 *)

\* The scores a success response must carry: the three fixed scores, or one
\* object per requested category, each score an integer in [0,3].
RequiredScoresValid(scores) ==
    IF route \in FixedRoutes
    THEN ValidFixedMapping(scores)
    ELSE \A k \in RequestedNames :
            /\ k \in DOMAIN scores
            /\ scores[k].t = "dict"
            /\ IsIntegerInRange(scores[k].score)

\* C2: a success response is returned only if every required score is
\* present and is an integer in [0,3].
C2_SuccessHasValidScores ==
    Succeeded => RequiredScoresValid(response.scores)

----------------------------------------------------------------------------
(* C3 *)

\* The caller-supplied text of a scoring call went through redact_basic_pii.
CallIsRedacted(call, limit) ==
    /\ call.essay = Prefix(redact_basic_pii(RequestText), limit)
    /\ \A i \in 1..Len(call.categories) :
          /\ call.categories[i].name = redact_basic_pii(payload.categories[i].name)
          /\ call.categories[i].description =
                IF payload.categories[i].description = <<>>
                THEN DefaultDescription
                ELSE redact_basic_pii(payload.categories[i].description)

\* C3: all caller-supplied text sent to the external service (the essay,
\* and in flexible mode the category names and descriptions) has been
\* passed through redact_basic_pii.
C3_AllSentTextRedacted ==
    Len(sent) >= 1 =>
        CallIsRedacted(sent[1],
            IF route \in FixedRoutes THEN FixedTextLimit ELSE FlexTextLimit)

----------------------------------------------------------------------------
(* C4 *)

\* C4: in fixed mode, after a first answer that does not parse, a repair
\* answer that is a valid mapping is returned as the scores, and a repair
\* answer that does not parse fails the request with the parse error and no
\* scores.
C4_RepairedMappingReturned ==
    (route \in FixedRoutes /\ Len(received) = 2 /\ received[1].kind = "text") =>
        /\ (received[2].kind = "json" /\ ValidFixedMapping(received[2].body)) =>
              /\ Succeeded
              /\ response.status = 200
              /\ response.scores = received[2].body
        /\ received[2].kind = "text" =>
              /\ pc = "done"
              /\ outcome = "JSONDecodeError"
              /\ response = ServerError

C4_Witness ==
    /\ route \in FixedRoutes
    /\ Len(received) = 2
    /\ received[1].kind = "text"
    /\ received[2].kind = "json"
    /\ ValidFixedMapping(received[2].body)
    /\ Succeeded
    /\ response.scores = received[2].body

----------------------------------------------------------------------------
(* C5 *)

\* The parsed answer the request validated, if it got one.
HasParsed == received # <<>> /\ received[Len(received)].kind = "json"
Parsed == received[Len(received)].body

\* The keys of a parsed answer that fail validation as the specification
\* states it: a missing key, a score that is no integer or is out of range,
\* a quote that is too long.
OffendingKeys(d) ==
    IF route \in FixedRoutes
    THEN {k \in ScoreFields : k \notin DOMAIN d \/ ~IsIntegerInRange(d[k])}
    ELSE {k \in RequestedNames :
            \/ k \notin DOMAIN d
            \/ d[k].t # "dict"
            \/ ~IsIntegerInRange(d[k].score)
            \/ /\ payload.quotes
               /\ d[k].quote.t = "str"
               /\ WordCount(d[k].quote.s) > MaxQuoteWords}

ValidationFailures == {"ValidationError", "ValueError"}

\* C5: a parsed answer that fails validation ends the request with a
\* validation error that names an offending key, and no result; a fixed-mode
\* answer without the writing key fails naming writing.
C5_ValidationFailureIsTerminal ==
    (HasParsed /\ OffendingKeys(Parsed) # {}) =>
        /\ pc = "done"
        /\ outcome \in ValidationFailures
        /\ errkeys # {}
        /\ errkeys \subseteq OffendingKeys(Parsed)
        /\ response = ServerError
        /\ (route \in FixedRoutes /\ "writing" \notin DOMAIN Parsed) => "writing" \in errkeys

----------------------------------------------------------------------------
(* C6 *)

NamesUnique == Cardinality(RequestedNames) = Len(payload.categories)

----------------------------------------------------------------------------
(* C7 *)

\* C7: tokens_estimate of a success response is the word count of the
\* redacted text.
C7_TokensOfRedactedText ==
    Succeeded =>
        response.tokens_estimate = WordCount(redact_basic_pii(RequestText))

----------------------------------------------------------------------------
(* C8 *)

NormalizedNames == {Normalize(k) : k \in RequestedNames}

\* C8 as stated: each requested name is normalised before it is used as a
\* response key, and the names of an accepted request are unique after
\* normalisation.
C8_KeysAreNormalized ==
    (route = "score_text_flex" /\ Succeeded) =>
        /\ NormalizedNames \subseteq DOMAIN response.scores
        /\ Cardinality(NormalizedNames) = Len(payload.categories)

\* C8 as amended: each requested name is used as the response key exactly
\* as the request gave it: a success response has every requested name as a
\* key, and an answer that lacks one is rejected.
C8_KeysAreLiteral ==
    route = "score_text_flex" =>
        /\ Succeeded => RequestedNames \subseteq DOMAIN response.scores
        /\ (HasParsed /\ ~(RequestedNames \subseteq DOMAIN Parsed)) =>
              /\ outcome = "ValueError"
              /\ response = ServerError

C8_Witness ==
    /\ route = "score_text_flex" /\ Succeeded
    /\ <<"Clarity", " ", "Thought">> \in RequestedNames
    /\ <<"Clarity", " ", "Thought">> \in DOMAIN response.scores
    /\ Normalize(<<"Clarity", " ", "Thought">>) \notin DOMAIN response.scores

----------------------------------------------------------------------------
(* C9 *)

\* C9: with quotes requested, an answer is accepted only if every requested
\* category's object has a quote that is a string of at most 25 words.
C9_QuotesPresentAndShort ==
    (route = "score_text_flex" /\ payload.quotes /\ Succeeded) =>
        \A k \in RequestedNames :
            /\ response.scores[k].quote.t = "str"
            /\ WordCount(response.scores[k].quote.s) <= MaxQuoteWords

----------------------------------------------------------------------------
(* C10 *)

Faulted == \E i \in 1..Len(received) : received[i].kind = "fault"

\* C10: when the external service faults on the scoring call or on the
\* repair call, the request fails and no scores are returned.
C10_FaultPropagates ==
    Faulted =>
        /\ pc = "done"
        /\ outcome = "APIError"
        /\ response = ServerError

C10_Witness ==
    /\ Len(received) = 2
    /\ received[2].kind = "fault"
    /\ outcome = "APIError"
    /\ response = ServerError

====
